---------------------------- MODULE Spec2Model ----------------------------
(***************************************************************************)
(* A model of the cAR GStreamer plugins:                                   *)
(*   - the depth colorizer (src/src/dcolorizer/imp.rs): colorize and       *)
(*     decolorize, per pixel and per call;                                 *)
(*   - the frame handoff buffer FrameData (src/src/frame.rs) under         *)
(*     concurrent producers and consumers;                                 *)
(*   - the ThetaUvc source element (src/src/theta/imp.rs): start, stop,    *)
(*     create and the device callback.                                     *)
(*                                                                         *)
(* Floating point: f64 values are modelled by exact rationals.  A          *)
(* disparity is always the reciprocal 1/k of a natural number k and is     *)
(* represented by k, with k = 0 standing for +infinity (1f64 / 0f64).      *)
(***************************************************************************)
EXTENDS Integers, Sequences, FiniteSets, TLC

VARIABLES
    \* ---- dcolorizer ----
    settings,          \* Settings { min_depth, max_depth } as configured (u32)
    overflow_checks,   \* build profile: TRUE = arithmetic overflow panics
    px,                \* one pixel travelling through colorize / decolorize
    call,              \* one whole colorize / decolorize call on buffers
    \* ---- FrameData ----
    fd,                \* the FrameData objects, by generation
    seq,               \* number of frames the producers have made so far
    pc,                \* where each thread is
    loc,               \* each thread's locals
    hist,              \* history: what was pushed, displaced, popped, returned
    \* ---- ThetaUvc ----
    frame_data,        \* ThetaUvc::frame_data: <<>> (None) or <<g>>
    device,            \* ThetaUvc::state.device is Some
    streams,           \* generations whose uvc stream delivers callbacks
    cb,                \* the callback in progress of each stream
    ctl,               \* the state-changing thread inside start()
    next_gen,          \* number of FrameData objects start() has made
    result,            \* what each consumer's last create() returned
    \* ---- dcolorizer, one conversion in progress ----
    thread_pool,       \* DColorizer::state.thread_pool: <<>> or <<width>>
    par,               \* the conversion: buffers, captured bounds, chunks left
    \* ---- K4a ----
    k4a                \* the k4asrc element: camera, its FrameData, last create

codecVars == <<settings, overflow_checks, px, call>>

fdVars == <<fd, seq, pc, loc, hist>>

thetaVars == <<frame_data, device, streams, cb, ctl, next_gen, result>>

parVars == <<thread_pool, par>>

k4aVars == <<k4a>>

vars == <<codecVars, fdVars, thetaVars, parVars, k4aVars>>

Min(a, b) == IF a <= b THEN a ELSE b
Max(a, b) == IF a >= b THEN a ELSE b

(***************************************************************************)
(*                              dcolorizer                                 *)
(***************************************************************************)

U16Max == 65535
U8Max == 255
MaxNormal == 1529

\* The outcome of a panicking computation (assert!, unreachable!, overflow).
Panic == -1

\* Values a min-depth / max-depth property is set to in the model (u32).
SettingValues == {0, 1, 3, 5, U16Max, U16Max + 1}

\* 16-bit depth samples fed to colorize in the model.
DepthSamples == {0, 1, 2, 3, 4, 5, 6, 100, U16Max}

\* impl Default for Settings
DefaultSettings == [threads |-> 0, min_depth |-> 1, max_depth |-> U16Max]

\* `settings.min_depth as u16`: a truncating cast.
EffectiveMinDepth(s) == s.min_depth % (U16Max + 1)

\* `settings.max_depth.min(u16::MAX as u32) as u16`: saturating.
EffectiveMaxDepth(s) == Min(s.max_depth, U16Max)

\* 1/a <= 1/b for reciprocals of naturals, 1/0 being +infinity.
RecipLeq(a, b) == (b = 0) \/ (a # 0 /\ b <= a)

\* `match depth { 0 => max_disparity, _ => 1f64 / (depth as f64) }`;
\* the disparity 1/k is represented by k.
Disparity(depth, min_depth) == IF depth = 0 THEN min_depth ELSE depth

\* A clamp that forgets the upper bound max_disparity.
ClampDisparityFarOnly(x, min_depth, max_depth) ==
    IF ~RecipLeq(max_depth, x) THEN max_depth ELSE x

\* A clamp that forgets the lower bound min_disparity.
ClampDisparityNearOnly(x, min_depth, max_depth) ==
    IF ~RecipLeq(x, min_depth) THEN min_depth ELSE x

\* f64::clamp(min_disparity, max_disparity) on reciprocals; the caller has
\* checked min_disparity <= max_disparity.
ClampDisparity(x, min_depth, max_depth) ==
    IF ~RecipLeq(max_depth, x) THEN max_depth      \* self < min  => min
    ELSE IF ~RecipLeq(x, min_depth) THEN min_depth \* self > max  => max
    ELSE x

\* d_normal = 1529 * (disparity - min_disparity) / (max_disparity - min_disparity)
\* cast `as isize` (NaN casts to 0), for the clamped disparity 1/x.
DNormalOfDisparity(x, min_depth, max_depth) ==
    IF min_depth = 0
    THEN 0   \* max_disparity = inf: finite / inf = 0, inf / inf = NaN
    ELSE IF min_depth = max_depth
    THEN 0   \* 0 / 0 = NaN
    ELSE ((MaxNormal * min_depth * (max_depth - x)) \div x)
             \div (max_depth - min_depth)

\* Lines 147-155 of colorize: Panic when f64::clamp's assert!(min <= max) fails.
Normalize(depth, min_depth, max_depth) ==
    IF ~RecipLeq(max_depth, min_depth)
    THEN Panic
    ELSE DNormalOfDisparity(
             ClampDisparity(Disparity(depth, min_depth), min_depth, max_depth),
             min_depth, max_depth)

\* A mask that saturates instead of wrapping.
MaskSaturating(x) == IF x < 0 THEN 0 ELSE IF x > U8Max THEN U8Max ELSE x

\* `x & u8::MAX as isize` on a two's-complement isize.
Mask(x) == x % (U8Max + 1)

RampR(d) ==
    IF (0 <= d /\ d <= 255) \/ (1276 <= d /\ d <= 1529) THEN 255
    ELSE IF 256 <= d /\ d <= 510 THEN 255 - d
    ELSE IF 511 <= d /\ d <= 1020 THEN 0
    ELSE d - 1020

RampG(d) ==
    IF 0 <= d /\ d <= 255 THEN d
    ELSE IF 256 <= d /\ d <= 510 THEN 255
    ELSE IF 511 <= d /\ d <= 765 THEN 765 - d
    ELSE 0

RampB(d) ==
    IF 0 <= d /\ d <= 765 THEN 0
    ELSE IF 766 <= d /\ d <= 1020 THEN d - 765
    ELSE IF 1021 <= d /\ d <= 1275 THEN 255
    ELSE 1529 - d

\* Lines 156-185 of colorize: the three channel matches and the masks.
\* Outside 0..=1529 every match ends in unreachable!().
Ramp(d) ==
    IF d < 0 \/ d > MaxNormal
    THEN <<Panic, Panic, Panic>>
    ELSE <<Mask(RampR(d)), Mask(RampG(d)), Mask(RampB(d))>>

\* usize subtraction a - b followed by + c: with overflow checks a < b
\* panics; without them both operations wrap modulo 2^64, which gives the
\* mathematical a - b + c whenever that is in 0 .. 2^64 - 1.
SubAdd(a, b, c, checks) ==
    IF a < b /\ checks THEN Panic ELSE a - b + c

\* Lines 218-232 of decolorize: the value of the first operation of the
\* branch taken, as an integer: the subtraction that comes before the
\* addition in g - b + 1529, b - r + 510 and r - g + 1020.
FirstDifference(r, g, b) ==
    IF r + g + b < 255 THEN 0
    ELSE IF r >= g /\ r >= b THEN g - b
    ELSE IF g >= r /\ g >= b THEN b - r
    ELSE IF b >= g /\ b >= r THEN r - g
    ELSE 0

\* Lines 215-232 of decolorize: the normalized value chosen for (r, g, b).
Invert(r, g, b, checks) ==
    IF r + g + b < 255 THEN 0
    ELSE IF r >= g /\ r >= b
    THEN IF g >= b THEN g - b ELSE SubAdd(g, b, 1529, checks)
    ELSE IF g >= r /\ g >= b THEN SubAdd(b, r, 510, checks)
    ELSE IF b >= g /\ b >= r THEN SubAdd(r, g, 1020, checks)
    ELSE 0

-----------------------------------------------------------------------------
\* One pixel: stage is "none", "bytes", "depth", "normal", "rgb", "inverted",
\* "encoded" or "panic".
NoPixel ==
    [stage |-> "none", depth |-> Panic, min_depth |-> 0, max_depth |-> 0,
     d_normal |-> Panic, rgb |-> <<0, 0, 0>>, dnormal |-> Panic,
     bytes |-> <<>>, big_endian |-> FALSE, out |-> <<>>]

\* An input chunk of colorize: two bytes and the byte order of the call.
BytesPixel(bytes, big_endian) ==
    [NoPixel EXCEPT !.stage = "bytes", !.bytes = bytes, !.big_endian = big_endian]

\* An input chunk of decolorize: three bytes and the byte order of the call.
ColorPixel(rgb, big_endian) ==
    [NoPixel EXCEPT !.stage = "rgb", !.rgb = rgb, !.big_endian = big_endian]

DepthPixel(d) == [NoPixel EXCEPT !.stage = "depth", !.depth = d]

NormalPixel(n) == [NoPixel EXCEPT !.stage = "normal", !.d_normal = n]

NoCall ==
    [op |-> "none", width |-> 0, height |-> 0, from |-> <<>>, to_len |-> 0,
     to |-> <<>>, big_endian |-> FALSE, counter |-> 0, status |-> "none"]

\* set_property for min-depth / max-depth.
SetProperty(field, value) ==
    /\ call.status = "none"
    /\ settings' = [settings EXCEPT ![field] = value]
    /\ settings' # settings
    /\ UNCHANGED <<overflow_checks, px, call, fdVars, thetaVars, parVars, k4aVars>>

\* colorize, lines 126-155, for one pixel: snapshot the bounds, decode,
\* clamp and normalize.
PixelNormalize ==
    /\ px.stage = "depth"
    /\ LET m == EffectiveMinDepth(settings)
           M == EffectiveMaxDepth(settings)
           n == Normalize(px.depth, m, M)
       IN  px' = [px EXCEPT !.stage = IF n = Panic THEN "panic" ELSE "normal",
                            !.min_depth = m, !.max_depth = M, !.d_normal = n]
    /\ UNCHANGED <<settings, overflow_checks, call, fdVars, thetaVars, parVars, k4aVars>>

\* colorize, lines 156-185, for one pixel.
PixelRamp ==
    /\ px.stage = "normal"
    /\ LET c == Ramp(px.d_normal)
       IN  px' = [px EXCEPT !.stage = IF c[1] = Panic THEN "panic" ELSE "rgb",
                            !.rgb = c]
    /\ UNCHANGED <<settings, overflow_checks, call, fdVars, thetaVars, parVars, k4aVars>>

\* decolorize, lines 215-232, for one pixel.
PixelInvert ==
    /\ px.stage = "rgb"
    /\ LET n == Invert(px.rgb[1], px.rgb[2], px.rgb[3], overflow_checks)
       IN  px' = [px EXCEPT !.stage = IF n = Panic THEN "panic" ELSE "inverted",
                            !.dnormal = n]
    /\ UNCHANGED <<settings, overflow_checks, call, fdVars, thetaVars, parVars, k4aVars>>

\* colorize decoding that reads the two bytes as little-endian whatever
\* the flag says.
FromBytesLittle(b0, b1, big_endian) == b0 + b1 * 256

\* Lines 142-146 of colorize: two bytes to a u16.
FromBytes(b0, b1, big_endian) ==
    IF big_endian THEN b0 * 256 + b1 ELSE b0 + b1 * 256

\* u16::to_be_bytes / u16::to_le_bytes.
ToBytes(v, big_endian) ==
    IF big_endian THEN <<v \div 256, v % 256>> ELSE <<v % 256, v \div 256>>

\* Lines 234-237 of decolorize: normalized value to depth, cast to usize
\* (NaN and negatives cast to 0, +inf saturates) and clamped to u16.
\* For finite bounds the disparity is
\*   (1529 * min + (max - min) * dnormal) / (1529 * min * max);
\* the quotient 1529 * min * max / num is taken in two parts to stay within
\* 32-bit integers.
Denormalize(dnormal, min_depth, max_depth) ==
    IF min_depth = 0 \/ max_depth = 0
    THEN 0      \* NaN as usize, or 1 / inf
    ELSE LET a   == MaxNormal * min_depth
             num == a + (max_depth - min_depth) * dnormal
         IN  IF num < 0 THEN 0
             ELSE IF num = 0 THEN U16Max
             ELSE Min((a \div num) * max_depth
                          + ((a % num) * max_depth) \div num, U16Max)

\* colorize, lines 142-146, for one pixel: the bytes to a depth sample.
PixelDecode ==
    /\ px.stage = "bytes"
    /\ px' = [px EXCEPT !.stage = "depth",
                        !.depth = FromBytes(px.bytes[1], px.bytes[2], px.big_endian)]
    /\ UNCHANGED <<settings, overflow_checks, call, fdVars, thetaVars, parVars, k4aVars>>

\* decolorize, lines 200-206 and 234-243, for one pixel: the bounds of the
\* call, the depth of the normalized value and its bytes.
PixelEncode ==
    /\ px.stage = "inverted"
    /\ LET m == EffectiveMinDepth(settings)
           M == EffectiveMaxDepth(settings)
       IN  px' = [px EXCEPT !.stage = "encoded",
                            !.min_depth = m, !.max_depth = M,
                            !.out = ToBytes(Denormalize(px.dnormal, m, M), px.big_endian)]
    /\ UNCHANGED <<settings, overflow_checks, call, fdVars, thetaVars, parVars, k4aVars>>

-----------------------------------------------------------------------------
\* Whole calls on buffers of bytes.

MaxPixels == 2

\* Depth samples and colours the call-level buffers are filled with.
CallDepths == {0, 258}
CallColors == {<<255, 0, 0>>, <<255, 0, 1>>}

\* Sequences over S of length 0 .. n.
SeqUpTo(S, n) == UNION {[1..k -> S] : k \in 0..n}

RECURSIVE Flatten(_)
Flatten(ss) == IF ss = <<>> THEN <<>> ELSE Head(ss) \o Flatten(Tail(ss))

\* The closure of colorize for one (depth, pixel) chunk pair.
ColorizePixel(b0, b1, big_endian, min_depth, max_depth) ==
    LET n == Normalize(FromBytes(b0, b1, big_endian), min_depth, max_depth)
    IN  IF n = Panic THEN <<Panic, Panic, Panic>> ELSE Ramp(n)

\* The closure of decolorize for one (rgb, depth) chunk pair.
DecolorizePixel(r, g, b, big_endian, min_depth, max_depth, checks) ==
    LET n == Invert(r, g, b, checks)
    IN  IF n = Panic THEN <<Panic, Panic>>
        ELSE ToBytes(Denormalize(n, min_depth, max_depth), big_endian)

\* par_chunks_exact(a).zip(par_chunks_exact_mut(b)): the number of pairs.
ZipChunks(from_len, a, to_len, b) == Min(from_len \div a, to_len \div b)

\* The final assert_eq!(counter.load(..), width * height).
CountAssert(counter, width, height) == counter = width * height

\* The output buffer after the closure ran on chunk pairs 1..n: the chunks
\* written, then the bytes no chunk covers, left as they were (0).
Written(chunks, to_len) ==
    LET w == Flatten(chunks)
    IN  w \o [i \in 1..(to_len - Len(w)) |-> 0]

\* DColorizer::colorize on whole buffers.
ColorizeResult(width, height, from, to_len, big_endian) ==
    LET m   == EffectiveMinDepth(settings)
        M   == EffectiveMaxDepth(settings)
        n   == ZipChunks(Len(from), 2, to_len, 3)
        out == [i \in 1..n |->
                  ColorizePixel(from[2 * i - 1], from[2 * i], big_endian, m, M)]
        bad == \E i \in 1..n : out[i][1] = Panic
    IN  [op |-> "colorize", width |-> width, height |-> height, from |-> from,
         to_len |-> to_len, to |-> IF bad THEN <<>> ELSE Written(out, to_len),
         big_endian |-> big_endian, counter |-> n,
         status |-> IF bad \/ ~CountAssert(n, width, height)
                    THEN "panic" ELSE "returned"]

\* DColorizer::decolorize on whole buffers.
DecolorizeResult(width, height, from, to_len, big_endian) ==
    LET m   == EffectiveMinDepth(settings)
        M   == EffectiveMaxDepth(settings)
        n   == ZipChunks(Len(from), 3, to_len, 2)
        out == [i \in 1..n |->
                  DecolorizePixel(from[3 * i - 2], from[3 * i - 1], from[3 * i],
                                  big_endian, m, M, overflow_checks)]
        bad == \E i \in 1..n : out[i][1] = Panic
    IN  [op |-> "decolorize", width |-> width, height |-> height,
         from |-> from, to_len |-> to_len,
         to |-> IF bad THEN <<>> ELSE Written(out, to_len),
         big_endian |-> big_endian, counter |-> n,
         status |-> IF bad \/ ~CountAssert(n, width, height)
                    THEN "panic" ELSE "returned"]

Dimensions == {wh \in (1..MaxPixels) \X (1..MaxPixels) : wh[1] * wh[2] <= MaxPixels}

\* Trailing bytes that do not make up a whole sample.
Trailing == {<<>>, <<7>>}

ColorizeCall ==
    /\ call.op = "idle"
    /\ \E wh \in Dimensions, ds \in SeqUpTo(CallDepths, MaxPixels),
          enc \in BOOLEAN, extra \in Trailing, to_len \in 0..(3 * MaxPixels + 1) :
          call' = ColorizeResult(wh[1], wh[2],
                      Flatten([i \in 1..Len(ds) |-> ToBytes(ds[i], enc)]) \o extra,
                      to_len, enc)
    /\ UNCHANGED <<settings, overflow_checks, px, fdVars, thetaVars, parVars, k4aVars>>

DecolorizeCall ==
    /\ call.op = "idle"
    /\ \E wh \in Dimensions, cs \in SeqUpTo(CallColors, MaxPixels),
          be \in BOOLEAN, extra \in Trailing, to_len \in 0..(2 * MaxPixels + 1) :
          call' = DecolorizeResult(wh[1], wh[2], Flatten(cs) \o extra, to_len, be)
    /\ UNCHANGED <<settings, overflow_checks, px, fdVars, thetaVars, parVars, k4aVars>>

------------------------------------------------------------------------------
\* One call of colorize / decolorize, chunk by chunk on the workers of the
\* pool, with set_property running next to it.

\* The workers of rayon's global pool: the hardware parallelism.
Hardware == 2

\* Values of the threads property.
ThreadSettings == {0, 1}

\* Values of min-depth and max-depth set while a conversion runs.
LiveSettingValues == {1, 3}

\* ThreadPoolBuilder::num_threads(threads): 0 is all the hardware parallelism.
PoolWidth(threads) == IF threads = 0 THEN Hardware ELSE threads

\* The workers that run the closure of par_chunks_exact(..).zip(..).for_each:
\* the call is not made inside thread_pool.install, so they are the workers
\* of the global pool.
Workers == 1..Hardware

NoPar ==
    [op |-> "idle", status |-> "none", from |-> <<>>, to |-> <<>>,
     big_endian |-> FALSE, pixels |-> 0, min_depth |-> 0, max_depth |-> 0,
     start |-> <<>>, pending |-> {}, counter |-> 0, workers |-> {},
     raced |-> FALSE, pool |-> 0, hits |-> <<>>]

ParIdle ==
    /\ thread_pool = <<>>
    /\ par = NoPar

\* change_state(NullToReady): the pool is built with settings.threads.
\* transform holds the state mutex for the whole conversion.
BuildPool ==
    /\ par.status # "running"
    /\ thread_pool' = <<PoolWidth(settings.threads)>>
    /\ UNCHANGED <<par, codecVars, fdVars, thetaVars, k4aVars>>

\* change_state(ReadyToNull): thread_pool.take()
DropPool ==
    /\ par.status # "running"
    /\ thread_pool' = <<>>
    /\ UNCHANGED <<par, codecVars, fdVars, thetaVars, k4aVars>>

\* The bounds the closure would use if it read the settings at each pixel.
ClosureBoundsLive(p) == <<EffectiveMinDepth(settings), EffectiveMaxDepth(settings)>>

\* The bounds the closure uses: the locals read once at the start of the call.
ClosureBounds(p) == <<p.min_depth, p.max_depth>>

\* The output chunk the closure computes from input chunk i under bounds b.
ChunkOut(p, i, b) ==
    IF p.op = "colorize"
    THEN ColorizePixel(p.from[2 * i - 1], p.from[2 * i], p.big_endian, b[1], b[2])
    ELSE DecolorizePixel(p.from[3 * i - 2], p.from[3 * i - 1], p.from[3 * i],
                         p.big_endian, b[1], b[2], overflow_checks)

\* Bytes per output chunk.
OutSize(p) == IF p.op = "colorize" THEN 3 ELSE 2

\* Output chunk i of the buffer.
ChunkOf(p, i) == SubSeq(p.to, OutSize(p) * (i - 1) + 1, OutSize(p) * i)

\* A zip that hands out output chunks in the order the inputs are taken up.
ChunkSlotByArrival(i, counter) == counter + 1

\* A zip that pairs every input chunk with the first output chunk.
ChunkSlotFirst(i, counter) == 1

\* zip: input chunk i is paired with output chunk i.
ChunkSlot(i, counter) == i

\* The buffer with chunk k replaced.
WriteChunk(to, size, k, chunk) ==
    [j \in 1..Len(to) |->
        IF size * (k - 1) < j /\ j <= size * k THEN chunk[j - size * (k - 1)] ELSE to[j]]

\* colorize / decolorize, lines 126-136 and 200-210: the bounds are read
\* under the settings lock, the counter is made, the chunks are paired.
\* start, pool and hits are history: the settings and the width of the
\* element's pool when the call began, and the number of times each output
\* chunk has been written.
ParBegin(op, from, pixels, big_endian) ==
    /\ par.op = "idle"
    /\ thread_pool # <<>>
    /\ par' = [NoPar EXCEPT
                 !.op = op, !.status = "running", !.from = from,
                 !.to = [j \in 1..(pixels * (IF op = "colorize" THEN 3 ELSE 2)) |-> 0],
                 !.big_endian = big_endian, !.pixels = pixels,
                 !.min_depth = EffectiveMinDepth(settings),
                 !.max_depth = EffectiveMaxDepth(settings),
                 !.start = <<settings.min_depth, settings.max_depth>>,
                 !.pool = thread_pool[1],
                 !.pending = 1..ZipChunks(Len(from), IF op = "colorize" THEN 2 ELSE 3,
                                          pixels * (IF op = "colorize" THEN 3 ELSE 2),
                                          IF op = "colorize" THEN 3 ELSE 2),
                 !.hits = [k \in 1..pixels |-> 0]]
    /\ UNCHANGED <<thread_pool, codecVars, fdVars, thetaVars, k4aVars>>

\* The closure on one pair of chunks, run by worker w.  workers and raced
\* are history: who ran a chunk, and whether a chunk ran while the settings
\* held other bounds than the captured ones.
ParChunk(i, w) ==
    /\ par.status = "running"
    /\ i \in par.pending
    /\ LET out == ChunkOut(par, i, ClosureBounds(par))
       IN IF out[1] = Panic
          THEN par' = [par EXCEPT !.status = "panic", !.pending = {},
                                  !.workers = @ \cup {w}]
          ELSE par' = [par EXCEPT
                         !.to = WriteChunk(@, OutSize(par), ChunkSlot(i, par.counter), out),
                         !.pending = @ \ {i},
                         !.counter = @ + 1,
                         !.hits[ChunkSlot(i, par.counter)] = @ + 1,
                         !.workers = @ \cup {w},
                         !.raced = @ \/ ClosureBoundsLive(par) # <<par.min_depth, par.max_depth>>]
    /\ UNCHANGED <<thread_pool, codecVars, fdVars, thetaVars, k4aVars>>

\* The end of for_each and the final assert_eq! on the counter.
ParJoin ==
    /\ par.status = "running"
    /\ par.pending = {}
    /\ par' = [par EXCEPT !.status = IF CountAssert(par.counter, par.pixels, 1)
                                     THEN "returned" ELSE "panic"]
    /\ UNCHANGED <<thread_pool, codecVars, fdVars, thetaVars, k4aVars>>

(***************************************************************************)
(*                    FrameData (src/frame.rs)                             *)
(*                                                                         *)
(* Option<T> is a sequence of length 0 (None) or 1 (Some).  A Duration is  *)
(* a natural number of nanoseconds.  The f64 latency estimate is the exact *)
(* rational num / 5^exp: the model abstracts the rounding of f64.          *)
(***************************************************************************)
BUFFER_SZ == 1

\* EXP_MOVING_AVG_COEF = 0.8, as numerator and denominator.
EXP_MOVING_AVG_COEF == <<4, 5>>

\* The most frames the producers make in one behaviour.
MaxFrames == 2

\* The most update_latency calls on one FrameData in one behaviour.
MaxUpdates == 2

\* The most FrameData objects (calls of start) in one behaviour.
MaxStreams == 2

Gens == 1..MaxStreams

Producers == {"p1", "p2"}
Consumers == {"c1", "c2"}
Threads == Producers \cup Consumers

\* Timestamps and spans the harness threads pass in.
Timestamps == {3, 7}
Spans == {5, 8}

RECURSIVE Pow(_, _)
Pow(b, e) == IF e = 0 THEN 1 ELSE b * Pow(b, e - 1)

\* impl Default for FrameData.  lock is the holder of the park mutex,
\* waiters the threads blocked in the condition variable.
NewFrameData ==
    [buffer |-> <<>>, start_timestamp |-> <<>>, latency |-> <<>>,
     lock |-> <<>>, waiters |-> {}, frame_counter |-> 0]

\* ArrayQueue::force_push variant that rejects the new frame on a full queue.
ForcePushKeepOld(buffer, frame) ==
    IF Len(buffer) < BUFFER_SZ THEN Append(buffer, frame) ELSE buffer

\* ArrayQueue::force_push on a queue of capacity BUFFER_SZ: a full queue
\* gives up its oldest element.
ForcePush(buffer, frame) ==
    IF Len(buffer) < BUFFER_SZ THEN Append(buffer, frame)
    ELSE Append(Tail(buffer), frame)

\* What force_push returns: the element it displaced, as a set.
Displaced(buffer) == IF Len(buffer) < BUFFER_SZ THEN {} ELSE {Head(buffer)}

\* ArrayQueue::pop variant that returns the head and leaves it in the queue.
PopPeek(buffer) ==
    IF buffer = <<>> THEN [ret |-> <<>>, buffer |-> <<>>]
    ELSE [ret |-> <<Head(buffer)>>, buffer |-> buffer]

\* ArrayQueue::pop: the value returned and the queue left behind.
Pop(buffer) ==
    IF buffer = <<>> THEN [ret |-> <<>>, buffer |-> <<>>]
    ELSE [ret |-> <<Head(buffer)>>, buffer |-> Tail(buffer)]

\* fetch_add variant that returns the value after the increment.
FetchAddPost(counter) == [ret |-> counter + 1, cell |-> counter + 1]

\* AtomicUsize::fetch_add(1): the value returned and the value left.
FetchAdd(counter) == [ret |-> counter, cell |-> counter + 1]

\* start_timestamp with a plain store in place of the compare_exchange.
StartTimestampLastWins(cell, timestamp) ==
    [cell |-> <<timestamp>>, ret |-> timestamp]

\* start_timestamp: compare_exchange(None, Some(timestamp)).
StartTimestamp(cell, timestamp) ==
    IF cell = <<>> THEN [cell |-> <<timestamp>>, ret |-> timestamp]
    ELSE [cell |-> cell, ret |-> cell[1]]

\* update_latency with the two weights exchanged.
UpdateLatencySwapped(past, latency) ==
    IF past # <<>>
    THEN <<[num |-> past[1].num * EXP_MOVING_AVG_COEF[1]
                    + latency * (EXP_MOVING_AVG_COEF[2] - EXP_MOVING_AVG_COEF[1])
                      * Pow(EXP_MOVING_AVG_COEF[2], past[1].exp),
            exp |-> past[1].exp + 1]>>
    ELSE <<[num |-> latency, exp |-> 0]>>

\* update_latency: the value stored, from the value loaded.
\* past * (1 - 0.8) + latency * 0.8 over the denominator 5^(exp + 1).
UpdateLatency(past, latency) ==
    IF past # <<>>
    THEN <<[num |-> past[1].num * (EXP_MOVING_AVG_COEF[2] - EXP_MOVING_AVG_COEF[1])
                    + latency * EXP_MOVING_AVG_COEF[1]
                      * Pow(EXP_MOVING_AVG_COEF[2], past[1].exp),
            exp |-> past[1].exp + 1]>>
    ELSE <<[num |-> latency, exp |-> 0]>>

\* get_latency: the estimate truncated to whole nanoseconds (as u64).
GetLatency(latency) ==
    IF latency = <<>> THEN <<>>
    ELSE <<latency[1].num \div Pow(EXP_MOVING_AVG_COEF[2], latency[1].exp)>>

\* notify_one variant that wakes every waiter.
NotifyOneBroadcast(waiters) == {waiters}

\* Condvar::notify_one: the sets of threads it may wake.
NotifyOne(waiters) == IF waiters = {} THEN {{}} ELSE {{w} : w \in waiters}

\* Condvar::notify_all: the set of threads it wakes.
NotifyAll(waiters) == waiters

\* The threads of ws leave the condition variable.
Wake(pcs, ws) == [t \in DOMAIN pcs |-> IF t \in ws THEN "woken" ELSE pcs[t]]

NoLoc == [fd |-> <<>>, past |-> <<>>, span |-> 0]

NoHist ==
    [last |-> [g \in Gens |-> <<>>],
     dropped |-> [g \in Gens |-> {}],
     popped |-> [g \in Gens |-> {}],
     repop |-> [g \in Gens |-> {}],
     offsets |-> [g \in Gens |-> {}],
     first |-> [g \in Gens |-> <<>>],
     stamps |-> [g \in Gens |-> {}],
     epochs |-> [g \in Gens |-> {}],
     spans |-> [g \in Gens |-> <<>>]]

\* The FrameData a thread works on.
FdOf(t) == loc[t].fd[1]

------------------------------------------------------------------------------
\* Threads that share one Arc<FrameData> and call its methods.

\* start_timestamp(timestamp)
FdStartTimestamp(t, timestamp) ==
    /\ pc[t] = "idle"
    /\ LET r == StartTimestamp(fd[FdOf(t)].start_timestamp, timestamp)
       IN /\ fd' = [fd EXCEPT ![FdOf(t)].start_timestamp = r.cell]
          /\ hist' = [hist EXCEPT !.first[FdOf(t)] = IF @ = <<>> THEN <<timestamp>> ELSE @,
                                  !.stamps[FdOf(t)] = @ \cup {timestamp},
                                  !.epochs[FdOf(t)] = @ \cup {r.ret}]
    /\ UNCHANGED <<seq, pc, loc, codecVars, parVars, k4aVars, thetaVars>>

\* update_latency: self.latency.load()
FdUpdateLatencyLoad(t, span) ==
    /\ pc[t] = "idle"
    /\ Len(hist.spans[FdOf(t)])
         + Cardinality({u \in Threads : pc[u] = "store" /\ loc[u].fd = loc[t].fd})
       < MaxUpdates
    /\ loc' = [loc EXCEPT ![t].past = fd[FdOf(t)].latency, ![t].span = span]
    /\ pc' = [pc EXCEPT ![t] = "store"]
    /\ UNCHANGED <<fd, seq, hist, codecVars, parVars, k4aVars, thetaVars>>

\* update_latency: self.latency.store(..)
FdUpdateLatencyStore(t) ==
    /\ pc[t] = "store"
    /\ fd' = [fd EXCEPT ![FdOf(t)].latency = UpdateLatency(loc[t].past, loc[t].span)]
    /\ hist' = [hist EXCEPT !.spans[FdOf(t)] = Append(@, loc[t].span)]
    /\ loc' = [loc EXCEPT ![t].past = <<>>, ![t].span = 0]
    /\ pc' = [pc EXCEPT ![t] = "idle"]
    /\ UNCHANGED <<seq, codecVars, parVars, k4aVars, thetaVars>>

\* add_frame: self.buffer.force_push(frame)
FdAddFramePush(t) ==
    /\ pc[t] = "idle"
    /\ seq < MaxFrames
    /\ seq' = seq + 1
    /\ fd' = [fd EXCEPT ![FdOf(t)].buffer = ForcePush(@, seq + 1)]
    /\ hist' = [hist EXCEPT !.last[FdOf(t)] = <<seq + 1>>,
                            !.dropped[FdOf(t)] = @ \cup Displaced(fd[FdOf(t)].buffer)]
    /\ pc' = [pc EXCEPT ![t] = "notify"]
    /\ UNCHANGED <<loc, codecVars, parVars, k4aVars, thetaVars>>

\* add_frame: cv.notify_one(), without the park mutex
FdAddFrameNotify(t) ==
    /\ pc[t] = "notify"
    /\ \E ws \in NotifyOne(fd[FdOf(t)].waiters) :
          /\ fd' = [fd EXCEPT ![FdOf(t)].waiters = @ \ ws]
          /\ pc' = [Wake(pc, ws) EXCEPT ![t] = "count"]
    /\ UNCHANGED <<seq, loc, hist, codecVars, parVars, k4aVars, thetaVars>>

\* add_frame: self.frame_counter.fetch_add(1, Relaxed)
FdAddFrameCount(t) ==
    /\ pc[t] = "count"
    /\ fd' = [fd EXCEPT ![FdOf(t)].frame_counter = FetchAdd(@).cell]
    /\ hist' = [hist EXCEPT !.offsets[FdOf(t)] =
                    @ \cup {FetchAdd(fd[FdOf(t)].frame_counter).ret}]
    /\ pc' = [pc EXCEPT ![t] = "idle"]
    /\ UNCHANGED <<seq, loc, codecVars, parVars, k4aVars, thetaVars>>

\* pop_frame
FdPopFrame(t) ==
    /\ pc[t] = "idle"
    /\ LET p == Pop(fd[FdOf(t)].buffer)
       IN /\ fd' = [fd EXCEPT ![FdOf(t)].buffer = p.buffer]
          /\ hist' = IF p.ret = <<>> THEN hist
                     ELSE [hist EXCEPT
                             !.popped[FdOf(t)] = @ \cup {p.ret[1]},
                             !.repop[FdOf(t)] = @ \cup ({p.ret[1]} \cap hist.popped[FdOf(t)])]
    /\ UNCHANGED <<seq, pc, loc, codecVars, parVars, k4aVars, thetaVars>>

\* A thread calls wait().
FdCallWait(t) ==
    /\ pc[t] = "idle"
    /\ pc' = [pc EXCEPT ![t] = "wait"]
    /\ UNCHANGED <<fd, seq, loc, hist, codecVars, parVars, k4aVars, thetaVars>>

\* wait: lock.lock()
WaitLock(t) ==
    /\ pc[t] = "wait"
    /\ fd[FdOf(t)].lock = <<>>
    /\ fd' = [fd EXCEPT ![FdOf(t)].lock = <<t>>]
    /\ pc' = [pc EXCEPT ![t] = "locked"]
    /\ UNCHANGED <<seq, loc, hist, codecVars, parVars, k4aVars, thetaVars>>

\* wait: cv.wait(guard) unlocks the mutex and blocks, in one step
WaitPark(t) ==
    /\ pc[t] = "locked"
    /\ fd' = [fd EXCEPT ![FdOf(t)].lock = <<>>, ![FdOf(t)].waiters = @ \cup {t}]
    /\ pc' = [pc EXCEPT ![t] = "parked"]
    /\ UNCHANGED <<seq, loc, hist, codecVars, parVars, k4aVars, thetaVars>>

\* Condvar::wait may return without a notification.
SpuriousWake(t) ==
    /\ pc[t] = "parked"
    /\ fd' = [fd EXCEPT ![FdOf(t)].waiters = @ \ {t}]
    /\ pc' = [pc EXCEPT ![t] = "woken"]
    /\ UNCHANGED <<seq, loc, hist, codecVars, parVars, k4aVars, thetaVars>>

\* wait: cv.wait takes the mutex again, and the guard is dropped at once
WaitReturn(t, to) ==
    /\ pc[t] = "woken"
    /\ fd[FdOf(t)].lock = <<>>
    /\ pc' = [pc EXCEPT ![t] = to]
    /\ UNCHANGED <<fd, seq, loc, hist, codecVars, parVars, k4aVars, thetaVars>>

(***************************************************************************)
(*                    ThetaUvc (src/theta/imp.rs)                          *)
(***************************************************************************)
\* (start_timestamp, finish_timestamp) of the frames the camera delivers.
FrameTimes == {<<7, 12>>, <<3, 11>>}

\* Duration::saturating_sub
SaturatingSub(a, b) == IF a >= b THEN a - b ELSE 0

NoCb == [pc |-> "idle", frame |-> <<>>]

NoResult == [kind |-> "none", frame |-> <<>>]

\* The strong count of the Arc<FrameData> of generation g: the element's
\* field, the clones of consumers inside create, the upgrade of a callback.
Refs(g) ==
    (IF frame_data = <<g>> THEN 1 ELSE 0)
    + Cardinality({t \in Threads : loc[t].fd = <<g>>})
    + (IF cb[g].pc # "idle" THEN 1 ELSE 0)

\* Dropping one Arc of generation g: the threads woken by impl Drop for
\* FrameData (notify_all), which runs when the last Arc goes.
DropWakes(g) == IF Refs(g) = 1 THEN NotifyAll(fd[g].waiters) ELSE {}

\* Dropping an Option<Arc<FrameData>>.
DropOptionWakes(o) == IF o = <<>> THEN {} ELSE DropWakes(o[1])

\* The FrameData objects after the threads ws left their condition variables.
Unpark(fds, ws) == [g \in DOMAIN fds |-> [fds[g] EXCEPT !.waiters = @ \ ws]]

\* change_state(NullToReady): a device was found
NullToReady ==
    /\ ctl = "idle"
    /\ device' = TRUE
    /\ UNCHANGED <<frame_data, streams, cb, ctl, next_gen, result, fdVars, codecVars, parVars, k4aVars>>

\* change_state(ReadyToNull): state.device.take()
ReadyToNull ==
    /\ ctl = "idle"
    /\ device' = FALSE
    /\ UNCHANGED <<frame_data, streams, cb, ctl, next_gen, result, fdVars, codecVars, parVars, k4aVars>>

\* start, the frame data span: a new FrameData replaces the old frame_data
StartInstall ==
    /\ ctl = "idle"
    /\ next_gen < MaxStreams
    /\ next_gen' = next_gen + 1
    /\ frame_data' = <<next_gen + 1>>
    /\ fd' = [Unpark(fd, DropOptionWakes(frame_data)) EXCEPT ![next_gen + 1] = NewFrameData]
    /\ pc' = Wake(pc, DropOptionWakes(frame_data))
    /\ ctl' = "starting"
    /\ UNCHANGED <<device, streams, cb, result, seq, loc, hist, codecVars, parVars, k4aVars>>

\* start, under the state lock: no device, or open or start_streaming
\* fails, and start returns Err; else the stream delivers frames.
StartStream(ok) ==
    /\ ctl = "starting"
    /\ ctl' = "idle"
    /\ streams' = IF device /\ ok THEN streams \cup {next_gen} ELSE streams
    /\ UNCHANGED <<frame_data, device, cb, next_gen, result, fdVars, codecVars, parVars, k4aVars>>

\* stop: state.device.take(), frame_data.take()
Stop ==
    /\ ctl = "idle"
    /\ device' = FALSE
    /\ frame_data' = <<>>
    /\ fd' = Unpark(fd, DropOptionWakes(frame_data))
    /\ pc' = Wake(pc, DropOptionWakes(frame_data))
    /\ UNCHANGED <<streams, cb, ctl, next_gen, result, seq, loc, hist, codecVars, parVars, k4aVars>>

\* on_frame_callback: state.upgrade(), then start_timestamp and the
\* buffer with its pts and duration
CbEnter(g, times) ==
    /\ g \in streams
    /\ cb[g].pc = "idle"
    /\ seq < MaxFrames
    /\ IF Refs(g) = 0
       THEN UNCHANGED <<fd, seq, cb, hist>>
       ELSE LET r == StartTimestamp(fd[g].start_timestamp, times[1])
            IN /\ seq' = seq + 1
               /\ fd' = [fd EXCEPT ![g].start_timestamp = r.cell]
               /\ hist' = [hist EXCEPT !.first[g] = IF @ = <<>> THEN <<times[1]>> ELSE @,
                                       !.stamps[g] = @ \cup {times[1]},
                                       !.epochs[g] = @ \cup {r.ret}]
               /\ cb' = [cb EXCEPT ![g] =
                           [pc |-> "push",
                            frame |-> <<[seq |-> seq + 1,
                                         pts |-> SaturatingSub(times[1], r.ret),
                                         duration |-> SaturatingSub(times[2], times[1])]>>]]
    /\ UNCHANGED <<frame_data, device, streams, ctl, next_gen, result, pc, loc, codecVars, parVars, k4aVars>>

\* on_frame_callback, add_frame: self.buffer.force_push(buffer)
CbPush(g) ==
    /\ cb[g].pc = "push"
    /\ fd' = [fd EXCEPT ![g].buffer = ForcePush(@, cb[g].frame[1])]
    /\ hist' = [hist EXCEPT !.last[g] = cb[g].frame,
                            !.dropped[g] = @ \cup Displaced(fd[g].buffer)]
    /\ cb' = [cb EXCEPT ![g].pc = "notify"]
    /\ UNCHANGED <<frame_data, device, streams, ctl, next_gen, result, seq, pc, loc, codecVars, parVars, k4aVars>>

\* on_frame_callback, add_frame: cv.notify_one() and the frame counter
CbNotify(g) ==
    /\ cb[g].pc = "notify"
    /\ \E ws \in NotifyOne(fd[g].waiters) :
          /\ fd' = [fd EXCEPT ![g].waiters = @ \ ws,
                               ![g].frame_counter = FetchAdd(@).cell]
          /\ pc' = Wake(pc, ws)
    /\ hist' = [hist EXCEPT !.offsets[g] = @ \cup {FetchAdd(fd[g].frame_counter).ret}]
    /\ cb' = [cb EXCEPT ![g].pc = "latency"]
    /\ UNCHANGED <<frame_data, device, streams, ctl, next_gen, result, seq, loc, codecVars, parVars, k4aVars>>

\* on_frame_callback: update_latency(span), then the Arc is dropped
CbFinish(g) ==
    /\ cb[g].pc = "latency"
    /\ fd' = [Unpark(fd, DropWakes(g)) EXCEPT
                ![g].latency = UpdateLatency(fd[g].latency, cb[g].frame[1].duration)]
    /\ hist' = [hist EXCEPT !.spans[g] = Append(@, cb[g].frame[1].duration)]
    /\ pc' = Wake(pc, DropWakes(g))
    /\ cb' = [cb EXCEPT ![g] = NoCb]
    /\ UNCHANGED <<frame_data, device, streams, ctl, next_gen, result, seq, loc, codecVars, parVars, k4aVars>>

\* create with frame_data = None: Err(FlowError::Eos), spinning variant
CreateOnClosedRetry(c) ==
    /\ result' = [result EXCEPT ![c] = [kind |-> "pending", frame |-> <<>>]]
    /\ pc' = [Wake(pc, DropOptionWakes(loc[c].fd)) EXCEPT ![c] = "reread"]
    /\ loc' = [loc EXCEPT ![c].fd = <<>>]
    /\ fd' = Unpark(fd, DropOptionWakes(loc[c].fd))
    /\ UNCHANGED hist

\* create with frame_data = None: the loop ends, Err(FlowError::Eos)
CreateOnClosed(c) ==
    /\ result' = [result EXCEPT ![c] = [kind |-> "Eos", frame |-> <<>>]]
    /\ pc' = [Wake(pc, DropOptionWakes(loc[c].fd)) EXCEPT ![c] = "idle"]
    /\ loc' = [loc EXCEPT ![c].fd = <<>>]
    /\ fd' = Unpark(fd, DropOptionWakes(loc[c].fd))
    /\ UNCHANGED hist

\* create with frame_data = Some(fd): pop_frame and return the buffer, or
\* clone the Arc and go to wait
CreateOnOpen(c, g) ==
    LET p == Pop(fd[g].buffer)
        ws == IF loc[c].fd = <<g>> THEN {} ELSE DropOptionWakes(loc[c].fd)
    IN IF p.ret # <<>>
       THEN /\ result' = [result EXCEPT ![c] = [kind |-> "NewBuffer", frame |-> p.ret]]
            /\ fd' = [Unpark(fd, ws) EXCEPT ![g].buffer = p.buffer]
            /\ hist' = [hist EXCEPT !.popped[g] = @ \cup {p.ret[1]},
                                    !.repop[g] = @ \cup ({p.ret[1]} \cap hist.popped[g])]
            /\ pc' = [Wake(pc, ws) EXCEPT ![c] = "idle"]
            /\ loc' = [loc EXCEPT ![c].fd = <<>>]
       ELSE /\ result' = [result EXCEPT ![c] = [kind |-> "pending", frame |-> <<>>]]
            /\ fd' = Unpark(fd, ws)
            /\ pc' = [Wake(pc, ws) EXCEPT ![c] = "wait"]
            /\ loc' = [loc EXCEPT ![c].fd = <<g>>]
            /\ UNCHANGED hist

\* create: one turn of the while-let loop under the frame_data read lock,
\* at entry or after wait returned (the clone of the last turn is dropped)
CreateLoop(c) ==
    /\ pc[c] \in {"idle", "reread"}
    /\ IF frame_data = <<>> THEN CreateOnClosed(c) ELSE CreateOnOpen(c, frame_data[1])
    /\ UNCHANGED <<frame_data, device, streams, cb, ctl, next_gen, seq, codecVars, parVars, k4aVars>>

------------------------------------------------------------------------------
(***************************************************************************)
(*                        K4a (src/k4a/imp.rs)                             *)
(*                                                                         *)
(* The k4asrc element: one FrameData made in new() and kept for the life   *)
(* of the element, the camera in state.camera, the depth-mode setting, and *)
(* create on the streaming thread.  stream, first, last and config are     *)
(* history: the number of successful starts, what the first create of the  *)
(* current stream returned, the last call and whether it returned Ok, and  *)
(* the depth mode the last successful start passed to the device.          *)
(***************************************************************************)

\* System timestamps of the images the SDK hands to create.
SystemTimestamps == {3, 7}

\* Duration - Duration: panics when the result would be negative.
DurationSub(a, b) == IF a >= b THEN a - b ELSE Panic

\* enum DepthMode
DepthModes ==
    {"NormalFov2x2Binned", "NormalFovUnbinned", "WideFov2x2Binned", "WideFovUnbinned"}

\* start, `match settings.depth_mode`: the k4a_depth_mode_t passed to the
\* device in Mode::Depth.
DeviceDepthMode(depth_mode) ==
    CASE depth_mode = "NormalFov2x2Binned" -> "K4A_DEPTH_MODE_NFOV_2X2BINNED"
      [] depth_mode = "NormalFovUnbinned" -> "K4A_DEPTH_MODE_NFOV_UNBINNED"
      [] depth_mode = "WideFov2x2Binned" -> "K4A_DEPTH_MODE_WFOV_2X2BINNED"
      [] depth_mode = "WideFovUnbinned" -> "K4A_DEPTH_MODE_NFOV_UNBINNED"

\* DepthMode::dimensions: the resolution put in the caps in Mode::Depth.
DepthModeDimensions(depth_mode) ==
    CASE depth_mode = "NormalFov2x2Binned" -> <<320, 288>>
      [] depth_mode = "NormalFovUnbinned" -> <<640, 576>>
      [] depth_mode = "WideFov2x2Binned" -> <<512, 512>>
      [] depth_mode = "WideFovUnbinned" -> <<1024, 1024>>

NoK4aResult == [kind |-> "none", pts |-> 0, offset |-> 0, ts |-> 0]

NoK4aCall == [op |-> "none", ok |-> TRUE]

\* K4a::new, with Settings::default (Mode::Depth, NormalFov2x2Binned).
NewK4a ==
    [camera |-> "none", frame_data |-> NewFrameData,
     depth_mode |-> "NormalFov2x2Binned", stream |-> 0,
     first |-> <<>>, result |-> NoK4aResult, last |-> NoK4aCall, config |-> <<>>]

K4aIdle == k4a = NewK4a

\* set_property for depth-mode.
K4aSetDepthMode(depth_mode) ==
    /\ k4a.result.kind # "panic"
    /\ k4a' = [k4a EXCEPT !.depth_mode = depth_mode,
                          !.last = [op |-> "set_property", ok |-> TRUE]]
    /\ UNCHANGED <<codecVars, fdVars, thetaVars, parVars>>

\* change_state(NullToReady): camera.replace(Closed(Device::new()?))
K4aNullToReady(found) ==
    /\ k4a.result.kind # "panic"
    /\ k4a' = [k4a EXCEPT !.camera = IF found THEN "closed" ELSE @,
                          !.last = [op |-> "null_to_ready", ok |-> found]]
    /\ UNCHANGED <<codecVars, fdVars, thetaVars, parVars>>

\* change_state(ReadyToNull): camera.take()
K4aReadyToNull ==
    /\ k4a.result.kind # "panic"
    /\ k4a' = [k4a EXCEPT !.camera = "none",
                          !.last = [op |-> "ready_to_null", ok |-> TRUE]]
    /\ UNCHANGED <<codecVars, fdVars, thetaVars, parVars>>

\* start: without caps of a known format it fails at once.  Else the
\* camera is taken out of the state; a closed one is started and put back
\* open, and when start_cameras fails `?` returns with the state left
\* empty.  Any other state is put back and start fails.
K4aStart(caps, ok) ==
    /\ k4a.result.kind # "panic"
    /\ k4a.stream < MaxStreams
    /\ k4a' = IF ~caps
              THEN [k4a EXCEPT !.last = [op |-> "start", ok |-> FALSE]]
              ELSE IF k4a.camera = "closed"
              THEN IF ok
                   THEN [k4a EXCEPT
                           !.camera = "open", !.stream = @ + 1, !.first = <<>>,
                           !.config = <<[setting |-> k4a.depth_mode,
                                         device |-> DeviceDepthMode(k4a.depth_mode),
                                         caps |-> DepthModeDimensions(k4a.depth_mode)]>>,
                           !.last = [op |-> "start", ok |-> TRUE]]
                   ELSE [k4a EXCEPT !.camera = "none",
                                    !.last = [op |-> "start", ok |-> FALSE]]
              ELSE [k4a EXCEPT !.last = [op |-> "start", ok |-> FALSE]]
    /\ UNCHANGED <<codecVars, fdVars, thetaVars, parVars>>

\* A stop that closes whatever state.camera holds.
StopCamerasAlways(camera) == "closed"

\* stop, `match state.camera.take()`: an open camera is stopped and kept
\* closed, any other state is put back.
StopCameras(camera) == IF camera = "open" THEN "closed" ELSE camera

\* stop
K4aStop ==
    /\ k4a.result.kind # "panic"
    /\ k4a' = [k4a EXCEPT !.camera = StopCameras(@),
                          !.last = [op |-> "stop", ok |-> TRUE]]
    /\ UNCHANGED <<codecVars, fdVars, thetaVars, parVars>>

\* create: NotLinked unless the camera is open; Error when no capture comes;
\* else the epoch is set if absent, pts is the system timestamp minus the
\* epoch, and add_frame gives the offset.
K4aCreate(ts, captured) ==
    /\ k4a.result.kind # "panic"
    /\ k4a.frame_data.frame_counter < MaxFrames
    /\ IF k4a.camera # "open"
       THEN k4a' = [k4a EXCEPT !.result = [NoK4aResult EXCEPT !.kind = "not_linked"],
                               !.last = [op |-> "create", ok |-> FALSE]]
       ELSE IF ~captured
       THEN k4a' = [k4a EXCEPT !.result = [NoK4aResult EXCEPT !.kind = "error"],
                               !.last = [op |-> "create", ok |-> FALSE]]
       ELSE LET st == StartTimestamp(k4a.frame_data.start_timestamp, ts)
                pts == DurationSub(ts, st.ret)
                n == FetchAdd(k4a.frame_data.frame_counter)
            IN IF pts = Panic
               THEN k4a' = [k4a EXCEPT
                              !.frame_data.start_timestamp = st.cell,
                              !.result = [NoK4aResult EXCEPT !.kind = "panic", !.ts = ts],
                              !.last = [op |-> "create", ok |-> FALSE]]
               ELSE LET r == [kind |-> "buffer", pts |-> pts, offset |-> n.ret, ts |-> ts]
                    IN k4a' = [k4a EXCEPT
                                 !.frame_data.start_timestamp = st.cell,
                                 !.frame_data.buffer = ForcePush(@, "unit"),
                                 !.frame_data.frame_counter = n.cell,
                                 !.first = IF @ = <<>> THEN <<r>> ELSE @,
                                 !.result = r,
                                 !.last = [op |-> "create", ok |-> TRUE]]
    /\ UNCHANGED <<codecVars, fdVars, thetaVars, parVars>>

FdIdle ==
    /\ fd = [g \in Gens |-> NewFrameData]
    /\ seq = 0
    /\ pc = [t \in Threads |-> "idle"]
    /\ loc = [t \in Threads |-> NoLoc]
    /\ hist = NoHist

ThetaIdle ==
    /\ frame_data = <<>>
    /\ device = FALSE
    /\ streams = {}
    /\ cb = [g \in Gens |-> NoCb]
    /\ ctl = "idle"
    /\ next_gen = 0
    /\ result = [t \in Threads |-> NoResult]

CodecIdle ==
    /\ settings = DefaultSettings
    /\ overflow_checks = TRUE
    /\ px = NoPixel
    /\ call = NoCall

\* One FrameData shared by producer and consumer threads.
InitFD ==
    /\ fd = [g \in Gens |-> NewFrameData]
    /\ seq = 0
    /\ pc = [t \in Threads |-> "idle"]
    /\ loc = [t \in Threads |-> [NoLoc EXCEPT !.fd = <<1>>]]
    /\ hist = NoHist
    /\ ThetaIdle
    /\ CodecIdle
    /\ ParIdle
    /\ K4aIdle

NextFD ==
    \/ \E t \in Threads, ts \in Timestamps : FdStartTimestamp(t, ts)
    \/ \E t \in Producers, s \in Spans : FdUpdateLatencyLoad(t, s)
    \/ \E t \in Producers : FdUpdateLatencyStore(t)
    \/ \E t \in Producers : FdAddFramePush(t)
    \/ \E t \in Producers : FdAddFrameNotify(t)
    \/ \E t \in Producers : FdAddFrameCount(t)
    \/ \E t \in Consumers : FdPopFrame(t)
    \/ \E t \in Consumers : FdCallWait(t)
    \/ \E t \in Consumers : WaitLock(t)
    \/ \E t \in Consumers : WaitPark(t)
    \/ \E t \in Consumers : SpuriousWake(t)
    \/ \E t \in Consumers : WaitReturn(t, "idle")

SpecFD == InitFD /\ [][NextFD]_vars

\* The theta source element: the state-changing thread, the streaming
\* thread in create, and the callbacks of the uvc streams.
Streamers == {"c1"}

Init ==
    /\ FdIdle
    /\ ThetaIdle
    /\ CodecIdle
    /\ ParIdle
    /\ K4aIdle

Next ==
    \/ NullToReady
    \/ ReadyToNull
    \/ StartInstall
    \/ \E ok \in BOOLEAN : StartStream(ok)
    \/ Stop
    \/ \E g \in Gens, times \in FrameTimes : CbEnter(g, times)
    \/ \E g \in Gens : CbPush(g)
    \/ \E g \in Gens : CbNotify(g)
    \/ \E g \in Gens : CbFinish(g)
    \/ \E c \in Streamers : CreateLoop(c)
    \/ \E c \in Streamers : WaitLock(c)
    \/ \E c \in Streamers : WaitPark(c)
    \/ \E c \in Streamers : SpuriousWake(c)
    \/ \E c \in Streamers : WaitReturn(c, "reread")

Spec == Init /\ [][Next]_vars

-----------------------------------------------------------------------------
\* The colour map alone: every normalized value through the ramp of colorize
\* and the inversion of decolorize.
InitColormap ==
    /\ settings = DefaultSettings
    /\ overflow_checks \in BOOLEAN
    /\ px \in {NormalPixel(n) : n \in 0..MaxNormal}
    /\ call = NoCall
    /\ FdIdle
    /\ ThetaIdle
    /\ ParIdle
    /\ K4aIdle

NextColormap == PixelRamp \/ PixelInvert

SpecColormap == InitColormap /\ [][NextColormap]_vars

\* The codec under its settings: pixels of given depth, and whole calls.
InitCodec ==
    /\ settings = DefaultSettings
    /\ overflow_checks \in BOOLEAN
    /\ \/ px \in {DepthPixel(d) : d \in DepthSamples} /\ call = NoCall
       \/ px = NoPixel /\ call = [NoCall EXCEPT !.op = "idle"]
    /\ FdIdle
    /\ ThetaIdle
    /\ ParIdle
    /\ K4aIdle

NextCodec ==
    \/ \E f \in {"min_depth", "max_depth"}, v \in SettingValues : SetProperty(f, v)
    \/ PixelNormalize
    \/ PixelRamp
    \/ PixelInvert
    \/ ColorizeCall
    \/ DecolorizeCall

SpecCodec == InitCodec /\ [][NextCodec]_vars

\* The two closures pixel by pixel, from the bytes of the input chunk to
\* the bytes of the output chunk, under either byte order.
ByteSamples == {0, 1, 2, 127, 128, 255}

InitPixel ==
    /\ settings = DefaultSettings
    /\ overflow_checks \in BOOLEAN
    /\ \/ px \in {BytesPixel(<<b0, b1>>, be) :
                     <<b0, b1, be>> \in ByteSamples \X ByteSamples \X BOOLEAN}
       \/ px \in {ColorPixel(<<r, g, b>>, be) :
                     <<r, g, b, be>> \in ByteSamples \X ByteSamples \X ByteSamples \X BOOLEAN}
    /\ call = NoCall
    /\ FdIdle
    /\ ThetaIdle
    /\ ParIdle
    /\ K4aIdle

NextPixel ==
    \/ \E f \in {"min_depth", "max_depth"}, v \in LiveSettingValues : SetProperty(f, v)
    \/ PixelDecode
    \/ PixelNormalize
    \/ PixelRamp
    \/ PixelInvert
    \/ PixelEncode

SpecPixel == InitPixel /\ [][NextPixel]_vars

-----------------------------------------------------------------------------
\* One conversion chunk by chunk, with the properties set next to it.
ParInputs ==
    {[op |-> "colorize", from |-> Flatten([i \in 1..Len(ds) |-> ToBytes(ds[i], be)]),
      pixels |-> Len(ds), big_endian |-> be] :
        <<ds, be>> \in (SeqUpTo(CallDepths, MaxPixels) \ {<<>>}) \X BOOLEAN}
    \cup
    {[op |-> "decolorize", from |-> Flatten(cs),
      pixels |-> Len(cs), big_endian |-> be] :
        <<cs, be>> \in (SeqUpTo(CallColors, MaxPixels) \ {<<>>}) \X BOOLEAN}

InitPar ==
    /\ CodecIdle
    /\ FdIdle
    /\ ThetaIdle
    /\ ParIdle
    /\ K4aIdle

NextPar ==
    \/ \E f \in {"min_depth", "max_depth"}, v \in LiveSettingValues : SetProperty(f, v)
    \/ \E v \in ThreadSettings : SetProperty("threads", v)
    \/ BuildPool
    \/ DropPool
    \/ \E inp \in ParInputs : ParBegin(inp.op, inp.from, inp.pixels, inp.big_endian)
    \/ \E i \in 1..MaxPixels, w \in Workers : ParChunk(i, w)
    \/ ParJoin

SpecPar == InitPar /\ [][NextPar]_vars

\* The k4asrc element through its state changes and create.
InitK4a ==
    /\ CodecIdle
    /\ FdIdle
    /\ ThetaIdle
    /\ ParIdle
    /\ K4aIdle

NextK4a ==
    \/ K4aStop
    \/ \E caps \in BOOLEAN, ok \in BOOLEAN : K4aStart(caps, ok)
    \/ \E depth_mode \in DepthModes : K4aSetDepthMode(depth_mode)
    \/ \E found \in BOOLEAN : K4aNullToReady(found)
    \/ K4aReadyToNull
    \/ \E ts \in SystemTimestamps, captured \in BOOLEAN : K4aCreate(ts, captured)

SpecK4a == InitK4a /\ [][NextK4a]_vars

(***************************************************************************)
(*          Claims about FrameData and the theta source element            *)
(***************************************************************************)
\* The frames made so far that are neither held, popped nor displaced.
Unaccounted(g) ==
    {f \in 1..seq : /\ fd[g].buffer # <<f>>
                    /\ f \notin hist.popped[g]
                    /\ f \notin hist.dropped[g]}

\* C1: the slot holds at most one frame; a held frame is the one pushed
\* last, so after pushes of A then B a pop returns B; a frame displaced by a
\* later push is never popped, and every frame is held, popped or displaced;
\* a producer that is about to push is never blocked, whatever the slot holds.
C1_LatestWins ==
    /\ Len(fd[1].buffer) <= 1
    /\ fd[1].buffer # <<>> => fd[1].buffer = hist.last[1]
    /\ hist.dropped[1] \cap hist.popped[1] = {}
    /\ Unaccounted(1) = {}
    /\ \A t \in Producers : pc[t] = "idle" /\ seq < MaxFrames => ENABLED FdAddFramePush(t)

\* Frame 1 was displaced unread by frame 2, and a pop returned frame 2.
C1_Witness ==
    /\ hist.dropped[1] = {1}
    /\ hist.popped[1] = {2}

\* C2: once stop() has closed the buffer (frame_data is None), no consumer
\* is blocked in the condition variable of wait().
C2_WakeOnClose ==
    frame_data = <<>> => \A c \in Streamers : pc[c] # "parked"

\* C3: a consumer is blocked in wait() only while the slot is empty, or
\* while the push that filled it has not yet reached its notify_one.
C3_NoLostWakeup ==
    \A c \in Streamers :
        pc[c] = "parked" =>
            \/ fd[FdOf(c)].buffer = <<>>
            \/ cb[FdOf(c)].pc = "notify"

\* C4: a step taken while frame_data is None and the consumer is outside
\* create leaves the consumer outside create (it does not block), and the
\* only result a create can give it is end-of-stream, never a frame.
C4_ClosedIsTerminal ==
    [][\A c \in Streamers :
          pc[c] = "idle" /\ frame_data = <<>> =>
              /\ pc'[c] = "idle"
              /\ result'[c] \in {result[c], [kind |-> "Eos", frame |-> <<>>]}
              /\ hist'.popped = hist.popped]_vars

\* After a start and a stop, create returned end-of-stream while a callback
\* of the old stream is still at work.
C4_Witness ==
    /\ frame_data = <<>>
    /\ next_gen >= 1
    /\ result["c1"].kind = "Eos"
    /\ \E g \in Gens : cb[g].pc = "push"

\* C5: the epoch is absent until the first start_timestamp call; from then
\* on it is the timestamp of the first call for good, whatever timestamps
\* later calls pass, and the values all calls have returned are exactly
\* that one value.
C5_EpochFirstCallerWins ==
    /\ fd[1].start_timestamp = hist.first[1]
    /\ hist.epochs[1] = {hist.first[1][i] : i \in 1..Len(hist.first[1])}
    /\ hist.first[1] = <<>> <=> hist.stamps[1] = {}

\* Two calls with different timestamps: the first one's is recorded and
\* returned to both.
C5_Witness ==
    /\ hist.first[1] = <<7>>
    /\ hist.stamps[1] = {3, 7}
    /\ fd[1].start_timestamp = <<7>>
    /\ hist.epochs[1] = {7}

\* The estimate the claim states, times 10^(Len(spans) - 1): the first span,
\* then previous * 0.2 + span * 0.8.
RECURSIVE DocumentedLatency(_)
DocumentedLatency(spans) ==
    IF Len(spans) = 1 THEN spans[1]
    ELSE 2 * DocumentedLatency(SubSeq(spans, 1, Len(spans) - 1))
         + 8 * spans[Len(spans)] * Pow(10, Len(spans) - 2)

\* C6, as stated: get_latency is absent exactly while no span was recorded,
\* and after the spans S0, S1, .. it equals S0, then previous * 0.2 + S * 0.8
\* for each further span.
C6_LatencyExact ==
    \A g \in Gens :
        LET spans == hist.spans[g]
            reported == GetLatency(fd[g].latency)
        IN IF spans = <<>> THEN reported = <<>>
           ELSE /\ reported # <<>>
                /\ reported[1] * Pow(10, Len(spans) - 1) = DocumentedLatency(spans)

\* C6, amended: the estimate is absent exactly while no span was recorded;
\* after the spans S0, S1, .. it is S0, then previous * 0.2 + S * 0.8 for each
\* further span; get_latency reports it cut down to whole nanoseconds, at
\* most one nanosecond below the estimate.
C6_LatencyEma ==
    \A g \in Gens :
        LET spans == hist.spans[g]
            latency == fd[g].latency
            reported == GetLatency(latency)
            scale == Pow(10, Len(spans) - 1)
        IN IF spans = <<>> THEN latency = <<>> /\ reported = <<>>
           ELSE /\ latency # <<>>
                /\ latency[1].num * scale
                     = DocumentedLatency(spans) * Pow(5, latency[1].exp)
                /\ reported # <<>>
                /\ reported[1] * scale <= DocumentedLatency(spans)
                /\ DocumentedLatency(spans) <= (reported[1] + 1) * scale

\* After the spans 5 and 8 the estimate is 5 * 0.2 + 8 * 0.8 = 7.4, and
\* get_latency reports 7.
C6_Witness ==
    /\ hist.spans[1] = <<5, 8>>
    /\ GetLatency(fd[1].latency) = <<7>>

\* C12: pop_frame is enabled for a consumer whatever the slot holds; a frame
\* it returned is no longer in the slot, was pushed before, and is never
\* returned by a second pop.
C12_PopFrame ==
    /\ hist.repop[1] = {}
    /\ hist.popped[1] \subseteq 1..seq
    /\ \A f \in hist.popped[1] : fd[1].buffer # <<f>>
    /\ Pop(<<>>) = [ret |-> <<>>, buffer |-> <<>>]
    /\ \A t \in Consumers : pc[t] = "idle" => ENABLED FdPopFrame(t)

\* Both frames were pushed and popped, each once, and the slot is empty.
C12_Witness ==
    /\ hist.popped[1] = {1, 2}
    /\ hist.dropped[1] = {}
    /\ fd[1].buffer = <<>>

\* The add_frame calls that pushed and have not yet counted.
PushesInFlight == Cardinality({t \in Producers : pc[t] \in {"notify", "count"}})

\* C13: the frame counter is the number of add_frame calls that reached
\* their fetch_add, whatever else the threads did and whether or not the
\* frames were overwritten, and the values add_frame returned are exactly
\* 0 .. counter - 1, each once.
C13_FrameCounter ==
    /\ fd[1].frame_counter = seq - PushesInFlight
    /\ hist.offsets[1] = 0..(fd[1].frame_counter - 1)

\* Two pushes were counted, the first frame overwritten unread.
C13_Witness ==
    /\ fd[1].frame_counter = 2
    /\ hist.offsets[1] = {0, 1}
    /\ hist.dropped[1] = {1}

\* C14, as stated: a thread blocked in wait() leaves it only when a push
\* notifies (one FrameData shared by the threads is never dropped, so there
\* is no close).
C14_OnlyPushWakes ==
    [][\A t \in Consumers :
          pc[t] = "parked" /\ pc'[t] # "parked" =>
              \E p \in Producers : pc[p] = "notify" /\ pc'[p] = "count"]_vars

\* C14, amended: the notify_one of an add_frame takes exactly one thread out
\* of the blocked ones when there is one, and leaves all the others blocked.
C14_SingleWake ==
    [][\A p \in Producers :
          pc[p] = "notify" /\ pc'[p] = "count" =>
              LET before == {t \in Consumers : pc[t] = "parked"}
                  after == {t \in Consumers : pc'[t] = "parked"}
              IN /\ after \subseteq before
                 /\ Cardinality(before \ after) = IF before = {} THEN 0 ELSE 1
                 /\ fd[1].waiters = before
                 /\ fd'[1].waiters = after]_vars

\* A push went past its notify_one: one consumer is awake, the other is
\* still blocked.
C14_Witness ==
    /\ \E p \in Producers : pc[p] = "count"
    /\ pc["c1"] = "woken"
    /\ pc["c2"] = "parked"
    /\ fd[1].waiters = {"c2"}

\* The estimate after update_latency calls run one after the other.
RECURSIVE SequentialLatency(_)
SequentialLatency(spans) ==
    IF spans = <<>> THEN <<>>
    ELSE UpdateLatency(SequentialLatency(SubSeq(spans, 1, Len(spans) - 1)),
                       spans[Len(spans)])

\* The orders of n things.
Orders(n) == {o \in [1..n -> 1..n] : \A i, j \in 1..n : i # j => o[i] # o[j]}

\* Two estimates are the same number.
SameLatency(a, b) ==
    IF a = <<>> \/ b = <<>> THEN a = b
    ELSE a[1].num * Pow(EXP_MOVING_AVG_COEF[2], b[1].exp)
           = b[1].num * Pow(EXP_MOVING_AVG_COEF[2], a[1].exp)

Abs(x) == IF x < 0 THEN -x ELSE x

\* C7: for every normalized value d in 0..1529, inverting the colour that
\* the ramp of colorize gives for d recovers a value within one step of d.
C7_RoundTrip ==
    px.stage = "inverted" /\ px.depth = Panic
        => Abs(px.dnormal - px.d_normal) <= 1

\* The colour the documented piecewise formula gives for d, with the 8-bit
\* mask resolved as a two's-complement wraparound: (255 - d) & 0xFF is
\* 511 - d on 256..510, and every other piece lies in 0..255.
DocumentedColor(d) ==
    CASE d \in 0..255     -> <<255, d, 0>>
      [] d \in 256..510   -> <<511 - d, 255, 0>>
      [] d \in 511..765   -> <<0, 765 - d, 0>>
      [] d \in 766..1020  -> <<0, 0, d - 765>>
      [] d \in 1021..1275 -> <<d - 1020, 0, 255>>
      [] d \in 1276..1529 -> <<255, 0, 1529 - d>>

\* C8: for every normalized value d in 0..1529 colorize stores the colour
\* of the documented piecewise formula, its mask wrapping and not clamping.
C8_ColormapFormula ==
    px.stage \in {"rgb", "inverted"} /\ px.d_normal \in 0..MaxNormal
        => px.rgb = DocumentedColor(px.d_normal)

\* The wraparound case: 255 - 256 = -1 is stored as 255.
C8_Witness ==
    px.stage = "rgb" /\ px.d_normal = 256 /\ px.rgb = <<255, 255, 0>>

\* The buffer lengths a call of `op` on width x height pixels requires.
RequiredFrom(c) == c.width * c.height * (IF c.op = "colorize" THEN 2 ELSE 3)
RequiredTo(c) == c.width * c.height * (IF c.op = "colorize" THEN 3 ELSE 2)

Saturates(p) ==
    /\ (p.depth = 0 \/ p.depth <= p.min_depth) => p.d_normal = MaxNormal
    /\ p.depth >= p.max_depth => p.d_normal = 0
    /\ p.stage = "rgb" /\ (p.depth = 0 \/ p.depth <= p.min_depth)
           => p.rgb = Ramp(Normalize(p.min_depth, p.min_depth, p.max_depth))
    /\ p.stage = "rgb" /\ p.depth >= p.max_depth
           => p.rgb = Ramp(Normalize(p.max_depth, p.min_depth, p.max_depth))

Colorized(p) == p.depth # Panic /\ p.stage \in {"normal", "rgb", "inverted"}

C17_InvertedBoundsFatal ==
    /\ call.op \in {"colorize", "decolorize"}
    /\ EffectiveMinDepth(settings) > EffectiveMaxDepth(settings)
    => call.status = "panic"


-----------------------------------------------------------------------------
\* Claims about one conversion running on the workers (SpecPar).

\* The input chunks the closure has been run on.
Done(p) == (1..p.pixels) \ p.pending

\* C11: for a fixed input buffer, byte order and bounds, output pixel i is
\* a function of input pixel i alone: whichever workers ran and in
\* whichever order the chunks were taken up, every chunk that has been
\* processed holds the codec's value of the input chunk of the same index,
\* every other chunk is untouched, and the counter is the number processed.
C11_Determinism ==
    par.status \in {"running", "returned"} =>
        /\ \A i \in Done(par) :
              ChunkOf(par, i) = ChunkOut(par, i, <<par.min_depth, par.max_depth>>)
        /\ \A i \in par.pending :
              ChunkOf(par, i) = [j \in 1..OutSize(par) |-> 0]
        /\ par.counter = Cardinality(Done(par))

\* C11 witness: a conversion of two pixels has returned whose chunks were
\* processed by two different workers and whose two output
\* pixels differ.
C11_Witness ==
    /\ par.status = "returned"
    /\ par.pixels = 2
    /\ Cardinality(par.workers) = 2
    /\ ChunkOf(par, 1) # ChunkOf(par, 2)
    /\ C11_Determinism

\* The bounds of the settings as they were when the call began.
StartBounds(p) ==
    LET s == [DefaultSettings EXCEPT !.min_depth = p.start[1], !.max_depth = p.start[2]]
    IN <<EffectiveMinDepth(s), EffectiveMaxDepth(s)>>

\* C16: the bounds are read once at the start of the call: whatever
\* set_property does while the conversion runs, every pixel of the output
\* buffer is computed with the bounds the settings held when the call began.
C16_BoundsSnapshot ==
    par.status \in {"running", "returned"} =>
        \A i \in Done(par) : ChunkOf(par, i) = ChunkOut(par, i, StartBounds(par))

\* C16 witness: a conversion has returned during which set_property changed
\* the bounds before one of its pixels was computed, to bounds under which
\* the first pixel would have come out differently.
C16_Witness ==
    /\ par.status = "returned"
    /\ par.raced
    /\ ChunkOf(par, 1) # ChunkOut(par, 1, ClosureBoundsLive(par))
    /\ C16_BoundsSnapshot

\* C18: the per-pixel work of a conversion runs on the pool built at
\* NullToReady with the configured width, so a conversion never uses more
\* workers than the width of the pool the element holds.
C18_PoolWidthBoundsWorkers ==
    par.op # "idle" => Cardinality(par.workers) <= par.pool

-----------------------------------------------------------------------------
\* Claims about the k4asrc element (SpecK4a).

\* C19: the state of a stream is scoped to it: the first frame created
\* after a start establishes the epoch, so it has pts 0 and its timestamp
\* is the epoch, and the frame counter starts again, so it has offset 0.
C19_StreamScoped ==
    k4a.first # <<>> =>
        /\ k4a.frame_data.start_timestamp = <<k4a.first[1].ts>>
        /\ k4a.first[1].pts = 0
        /\ k4a.first[1].offset = 0

\* C20: every create that reaches the timestamp computation returns a
\* buffer whose pts is its capture timestamp minus the epoch, and 0 when
\* the timestamp is earlier than the epoch; it does not abort.
C20_PtsRelativeToEpoch ==
    k4a.result.kind \in {"buffer", "panic"} =>
        /\ k4a.result.kind = "buffer"
        /\ k4a.result.pts =
              SaturatingSub(k4a.result.ts, k4a.frame_data.start_timestamp[1])

-----------------------------------------------------------------------------
\* Claims about the closures pixel by pixel (SpecPixel).

\* The two bytes of a sample in the other order.
Swap(pair) == <<pair[2], pair[1]>>

\* C21: the byte order flag only selects the encoding of the 16-bit sample:
\* colorize gives the colour it gives for the byte-swapped input under the
\* other flag; decolorize writes the byte-swapped pair of what it writes
\* under the other flag; and the inversion reads R, G, B in that order
\* under either flag.
C21_ByteOrder ==
    /\ px.stage = "rgb" /\ px.bytes # <<>> =>
          px.rgb = ColorizePixel(px.bytes[2], px.bytes[1], ~px.big_endian,
                                 px.min_depth, px.max_depth)
    /\ px.stage \in {"inverted", "encoded"} =>
          px.dnormal = Invert(px.rgb[1], px.rgb[2], px.rgb[3], overflow_checks)
    /\ px.stage = "encoded" =>
          px.out = Swap(DecolorizePixel(px.rgb[1], px.rgb[2], px.rgb[3],
                                        ~px.big_endian, px.min_depth, px.max_depth,
                                        overflow_checks))

\* C21 witness: the big-endian bytes 1, 2 have been colorized, to a colour
\* other than the one the same bytes give when read as little-endian.
C21_Witness ==
    /\ px.stage = "rgb"
    /\ px.bytes = <<1, 2>>
    /\ px.big_endian
    /\ px.rgb # ColorizePixel(1, 2, FALSE, px.min_depth, px.max_depth)
    /\ C21_ByteOrder

-----------------------------------------------------------------------------
\* Claims about the codec under its settings (SpecCodec).

\* C22: for every depth sample and every pair of bounds with
\* min_depth <= max_depth, equal bounds included, the truncated normalized
\* value of colorize lies in 0 .. 1529, so no channel match ends in
\* unreachable!().
C22_NormalRange ==
    /\ px.depth # Panic
    /\ px.stage \notin {"none", "bytes", "depth"}
    /\ px.min_depth <= px.max_depth
    => /\ px.d_normal \in 0..MaxNormal
       /\ Ramp(px.d_normal)[1] # Panic

\* C22 witness: a sample colorized under equal bounds.
C22_Witness ==
    /\ px.stage = "rgb"
    /\ px.depth = 3
    /\ px.min_depth = 5 /\ px.max_depth = 5
    /\ C22_NormalRange

-----------------------------------------------------------------------------
\* More claims about one conversion running on the workers (SpecPar).

\* C23: for buffers of the required lengths, whatever the order in which
\* the workers take up the chunks and increment the counter, no output
\* pixel is written twice, the final assert_eq! on the counter does not
\* fail, and at return every one of the width * height output pixels has
\* been written exactly once and the counter equals width * height.
C23_PixelCount ==
    /\ par.status \in {"running", "returned"} =>
          \A k \in 1..par.pixels : par.hits[k] <= 1
    /\ par.status = "running" /\ par.pending = {} =>
          CountAssert(par.counter, par.pixels, 1)
    /\ par.status = "returned" =>
          /\ par.counter = par.pixels
          /\ \A k \in 1..par.pixels : par.hits[k] = 1

\* C23 witness: a conversion of two pixels has passed its final assert
\* after two workers each processed one chunk.
C23_Witness ==
    /\ par.status = "returned"
    /\ par.hits = <<1, 1>>
    /\ par.workers = {1, 2}
    /\ C23_PixelCount

-----------------------------------------------------------------------------
\* More claims about the closures pixel by pixel (SpecPixel).

\* A pixel that entered decolorize as a colour and has been through the
\* inversion, whether it gave a value or panicked.
InvertedColor ==
    /\ px.bytes = <<>>
    /\ px.depth = Panic
    /\ px.d_normal = Panic
    /\ px.stage \in {"inverted", "encoded", "panic"}

\* The normalized value of the first matching branch, in the order
\* R-dominant, G-dominant, B-dominant, over the integers.
DocumentedInverse(r, g, b) ==
    IF r + g + b < 255 THEN 0
    ELSE IF r >= g /\ r >= b THEN (IF g >= b THEN g - b ELSE g - b + 1529)
    ELSE IF g >= r /\ g >= b THEN b - r + 510
    ELSE r - g + 1020

\* C24: for every colour, decolorize chooses a normalized value in
\* 0 .. 1529: 0 when R + G + B < 255, and otherwise the value of the first
\* matching branch in the order R-dominant, G-dominant, B-dominant.
C24_InvertRange ==
    InvertedColor =>
        /\ px.dnormal \in 0..MaxNormal
        /\ px.dnormal = DocumentedInverse(px.rgb[1], px.rgb[2], px.rgb[3])

\* C26: for every colour, the first operation of the branch decolorize
\* takes, the subtraction in g - b + 1529, b - r + 510 and r - g + 1020,
\* is not negative, and the inversion does not panic.
C26_NoUnderflow ==
    InvertedColor =>
        /\ FirstDifference(px.rgb[1], px.rgb[2], px.rgb[3]) >= 0
        /\ px.stage # "panic"

-----------------------------------------------------------------------------
\* More claims about the codec under its settings (SpecCodec).

\* A 32-bit property value saturated to the 16-bit range.
SaturatedU16(v) == Min(v, U16Max)

\* C25: the bounds a conversion uses are the configured property values
\* saturated to 16 bits: whenever colorize takes its bounds from the
\* settings, min_depth and max_depth are each the configured value, or
\* 65535 when the configured value is larger.
C25_EffectiveBounds ==
    [][px.stage = "depth" /\ px'.stage # "depth" =>
          /\ px'.min_depth = SaturatedU16(settings.min_depth)
          /\ px'.max_depth = SaturatedU16(settings.max_depth)]_vars

-----------------------------------------------------------------------------
\* More claims about the theta source element (Spec).

\* C27: a start that returned an error has installed no frame buffer, so
\* when no start is in progress a create never blocks on a buffer that no
\* started stream produces into: the frame buffer the element holds, and
\* any buffer a create is waiting on, belongs to a stream that was started.
C27_FailedStartInstallsNothing ==
    ctl = "idle" =>
        /\ frame_data # <<>> => frame_data[1] \in streams
        /\ \A c \in Streamers :
              pc[c] \in {"wait", "locked", "parked"} => loc[c].fd[1] \in streams

-----------------------------------------------------------------------------
\* More claims about the k4asrc element (SpecK4a).

\* C28: a start that returns an error leaves the camera state as it was
\* before the call; in particular a Closed device whose cameras fail to
\* start is still held Closed.
C28_FailedStartUnchanged ==
    [][k4a'.last = [op |-> "start", ok |-> FALSE] => k4a'.camera = k4a.camera]_vars

DocumentedDeviceMode(depth_mode) ==
    CASE depth_mode = "NormalFov2x2Binned" -> "K4A_DEPTH_MODE_NFOV_2X2BINNED"
      [] depth_mode = "NormalFovUnbinned" -> "K4A_DEPTH_MODE_NFOV_UNBINNED"
      [] depth_mode = "WideFov2x2Binned" -> "K4A_DEPTH_MODE_WFOV_2X2BINNED"
      [] depth_mode = "WideFovUnbinned" -> "K4A_DEPTH_MODE_WFOV_UNBINNED"

\* C30: the depth mode a start passes to the device is the setting's own
\* mode, so no two settings are passed as the same mode, and the
\* resolution put in the caps is the resolution of the mode configured,
\* which is the one advertised for the setting that mode belongs to.
C30_DepthModeMapping ==
    k4a.config # <<>> =>
        /\ k4a.config[1].device = DocumentedDeviceMode(k4a.config[1].setting)
        /\ \A d \in DepthModes :
              DocumentedDeviceMode(d) = k4a.config[1].device =>
                  DepthModeDimensions(d) = k4a.config[1].caps

=========================================================================
